---- MODULE Spec2Model ----
(***************************************************************************)
(* Model of the door-sensor decomposition of escape-my-basement            *)
(* (src/game/door.rs, spawn_door_sensor): door tiles of every level are    *)
(* grouped per level entity, every row is collapsed into plates, plates    *)
(* are merged across rows into rectangles and one sensor is spawned per    *)
(* rectangle.                                                              *)
(***************************************************************************)
EXTENDS Integers, Sequences, FiniteSets, TLC

\* ------------------------------------------------------------------------
\* Bounds of the model
\* ------------------------------------------------------------------------
\* Worlds whose door tiles all belong to one level: the IntGrid layer has at
\* most MaxCells cells (c_wid * c_hei) and at most MaxDoors Door tiles.
MaxCells == 6
MaxDoors == 4
\* Worlds whose door tiles are spread over several levels: layers of at most
\* MaxSharedCells cells, at most MaxSharedDoors Door tiles in the world.
MaxSharedCells == 3
MaxSharedDoors == 3

\* the level entities of the world, in a fixed order of reference
LevelOrder == << "A", "B" >>
Levels == { LevelOrder[i] : i \in 1..Len(LevelOrder) }

VARIABLES
    c_wid,                      \* LayerInstance.c_wid of every level
    c_hei,                      \* LayerInstance.c_hei of every level
    tiles,                      \* the Door int-cell entities of the world
    added,                      \* levels whose Door entities are Added this frame
    phase,                      \* position of spawn_door_sensor in the frame
    visited,                    \* levels level_query.iter() has already yielded
    level_to_door_locations,    \* HashMap<Entity, HashSet<GridCoords>>
    pc,                         \* per level: position inside the closure body
    plate_stack,                \* per level: Vec<Vec<Plate>>
    rect_builder,               \* per level: HashMap<Plate, Rect>
    prev_row,                   \* per level: Vec<Plate>
    door_rects,                 \* per level: Vec<Rect>
    row,                        \* per level: index of enumerate()
    sensors,                    \* per level: the Door sensor children spawned
    first_rects                 \* rectangle sets of the first completed run

vars == << c_wid, c_hei, tiles, added, phase, visited, level_to_door_locations,
           pc, plate_stack, rect_builder, prev_row, door_rects, row, sensors,
           first_rects >>

\* The Animation component of one entity (src/game/animation.rs) and the
\* texture atlas index of its Sprite.
VARIABLES
    animations,                 \* Animation.animations: Vec<AnimationData>
    timer,                      \* Animation.timer
    frame,                      \* Animation.frame
    current,                    \* Animation.current
    finished,                   \* Animation.finished
    atlas,                      \* Sprite.texture_atlas.index
    call                        \* the last call made on the component

anim_vars == << animations, timer, frame, current, finished, atlas, call >>

\* Menus, the physics clock and the selected level (src/menus, door.rs 28-50)
VARIABLES
    menu,                       \* State<Menu>
    next_menu,                  \* NextState<Menu>
    physics_paused,             \* Time<Physics> is paused
    indices_level,              \* LevelSelection::Indices(indices).level
    project,                    \* the LdtkProjectHandle entity exists
    event                       \* the last event or system that ran

menu_vars == << menu, next_menu, physics_paused, indices_level, project,
               event >>

\* Player entities and the frame in which the systems run
\* (src/game/player.rs, spike.rs, mine.rs, menus/death.rs)
VARIABLES
    players,                    \* the entities with Player: Dead, RigidBody, Animation
    spawn_points,               \* number of entities with PlayerSpawn
    step,                       \* the schedule of the frame that is running
    todo                        \* Update systems that have not run in this frame

player_vars == << players, spawn_points, step, todo >>

\* everything the door-sensor system does not touch
beyond_door == << anim_vars, menu_vars, player_vars >>

\* everything outside the Animation component
beyond_anim == << vars, menu_vars, player_vars >>

\* everything outside the menus
beyond_menu == << vars, anim_vars, player_vars >>

\* ------------------------------------------------------------------------
\* Values
\* ------------------------------------------------------------------------
GridCoords(x, y) == [x |-> x, y |-> y]

Plate(left, right) == [left |-> left, right |-> right]

Rect(left, right, top, bottom) ==
    [left |-> left, right |-> right, top |-> top, bottom |-> bottom]

DoorTile(coords, level) == [coords |-> coords, level |-> level]

Range(s) == { s[i] : i \in 1..Len(s) }

EmptyMap == [k \in {} |-> 0]

\* cells inside [0,width) x [0,height)
InBounds(coords, width, height) ==
    /\ 0 <= coords.x /\ coords.x < width
    /\ 0 <= coords.y /\ coords.y < height

\* Candidate door cells of a level of the given size: every cell of the
\* grid, and two cells outside of it: the cell right of the right edge of
\* row 0 and a cell off the grid on both axes (negative x, y = height).
CandidateCells(width, height) ==
    { GridCoords(x, y) : x \in 0..(width - 1), y \in 0..(height - 1) }
        \cup { GridCoords(width, 0), GridCoords(-1, height) }

\* layer sizes (c_wid, c_hei) of at most `cells` cells
GridSizes(cells) ==
    { wh \in (0..cells) \X (0..cells) : wh[1] * wh[2] <= cells }

RECURSIVE SubsetsUpTo(_, _)
SubsetsUpTo(S, k) ==
    IF k = 0 THEN { {} }
    ELSE LET smaller == SubsetsUpTo(S, k - 1)
         IN  smaller \cup { T \cup {e} : T \in smaller, e \in S }

\* ------------------------------------------------------------------------
\* Grouping of the door tiles by level entity (door.rs 83-95)
\* ------------------------------------------------------------------------
door_query == { d \in tiles : d.level \in added }

\* grandparent.parent(): the level entity a door tile belongs to
GrandparentShared(door) == LevelOrder[Len(LevelOrder)]
Grandparent(door) == door.level

\* level_to_door_locations.entry(level).or_default().insert(grid_coords)
InsertDoorOverwrite(map, level, grid_coords) ==
    [l \in (DOMAIN map) \cup {level} |->
        IF l = level THEN {grid_coords} ELSE map[l]]
InsertDoor(map, level, grid_coords) ==
    [l \in (DOMAIN map) \cup {level} |->
        IF l = level
        THEN (IF l \in DOMAIN map THEN map[l] ELSE {}) \cup {grid_coords}
        ELSE map[l]]

\* every order in which door_query.iter() can yield the doors
RECURSIVE IterationOrders(_)
IterationOrders(S) ==
    IF S = {} THEN { << >> }
    ELSE UNION { { << e >> \o s : s \in IterationOrders(S \ {e}) } : e \in S }

RECURSIVE GroupDoorsFrom(_, _, _)
GroupDoorsFrom(order, i, map) ==
    IF i > Len(order) THEN map
    ELSE GroupDoorsFrom(order, i + 1,
            InsertDoor(map, Grandparent(order[i]), order[i].coords))

\* ------------------------------------------------------------------------
\* Row plate extraction (door.rs 116-139)
\* ------------------------------------------------------------------------
\* Option<i32>: None is << >>, Some(s) is << s >>
None == << >>
Some(s) == << s >>

\* the last column of `for x in 0..=width`
LastColumnExclusive(width) == width - 1
LastColumn(width) == width

\* Plate { left: s, right: x - 1 }
ClosePlateAtX(s, x) == Plate(s, x)
ClosePlate(s, x) == Plate(s, x - 1)

RECURSIVE ScanRow(_, _, _, _, _, _)
ScanRow(level_doors, y, width, x, plate_start, row_plates) ==
    IF x > LastColumn(width) THEN row_plates
    ELSE LET marked == GridCoords(x, y) \in level_doors
         IN  IF plate_start # None /\ ~marked
             THEN ScanRow(level_doors, y, width, x + 1, None,
                          Append(row_plates, ClosePlate(plate_start[1], x)))
             ELSE IF plate_start = None /\ marked
             THEN ScanRow(level_doors, y, width, x + 1, Some(x), row_plates)
             ELSE ScanRow(level_doors, y, width, x + 1, plate_start, row_plates)

RowPlates(level_doors, y, width) ==
    ScanRow(level_doors, y, width, 0, None, << >>)

\* for y in 0..height { ... plate_stack.push(row_plates) }
ExtractPlates(level_doors, width, height) ==
    [i \in 1..(IF height > 0 THEN height ELSE 0) |->
        RowPlates(level_doors, i - 1, width)]

\* plate_stack.push(Vec::new()): the extra empty row
PushEmptyRowOmitted(stack) == stack
PushEmptyRow(stack) == Append(stack, << >>)

\* ------------------------------------------------------------------------
\* Vertical merge (door.rs 141-170)
\* ------------------------------------------------------------------------
\* current_row.contains(prev_plate)
RowContainsOverlap(current_row, plate) ==
    \E i \in 1..Len(current_row) :
        /\ current_row[i].left <= plate.right
        /\ plate.left <= current_row[i].right
RowContains(current_row, plate) ==
    \E i \in 1..Len(current_row) : current_row[i] = plate

\* rect_builder.remove(prev_plate): the map without the key
RemoveKept(builder, plate) == builder
Remove(builder, plate) ==
    [p \in (DOMAIN builder) \ {plate} |-> builder[p]]

\* .and_modify(|e| e.top += 1)
ExtendRectNoGrow(e) == e
ExtendRect(e) == [e EXCEPT !.top = @ + 1]

\* .or_insert(Rect { bottom: y, top: y, left: plate.left, right: plate.right })
NewRectUnitWide(plate, y) == Rect(plate.left, plate.left, y, y)
NewRectFromZero(plate, y) == Rect(plate.left, plate.right, y, 0)
NewRect(plate, y) == Rect(plate.left, plate.right, y, y)

\* first inner loop: rects of prev_row plates missing from current_row finish
RECURSIVE FinishRects(_, _, _, _, _)
FinishRects(prev, current_row, i, builder, rects) ==
    IF i > Len(prev) THEN [builder |-> builder, rects |-> rects]
    ELSE IF ~RowContains(current_row, prev[i]) /\ prev[i] \in DOMAIN builder
         THEN FinishRects(prev, current_row, i + 1,
                          Remove(builder, prev[i]),
                          Append(rects, builder[prev[i]]))
         ELSE FinishRects(prev, current_row, i + 1, builder, rects)

\* second inner loop: every plate of current_row extends or starts a rect
RECURSIVE GrowRects(_, _, _, _)
GrowRects(current_row, y, j, builder) ==
    IF j > Len(current_row) THEN builder
    ELSE LET plate == current_row[j]
             entry == IF plate \in DOMAIN builder
                      THEN ExtendRect(builder[plate])
                      ELSE NewRect(plate, y)
         IN  GrowRects(current_row, y, j + 1,
                [p \in (DOMAIN builder) \cup {plate} |->
                    IF p = plate THEN entry ELSE builder[p]])

\* one iteration of `for (y, current_row) in plate_stack.into_iter().enumerate()`
MergeStep(st, current_row, y) ==
    LET flushed  == FinishRects(st.prev_row, current_row, 1,
                                st.rect_builder, st.door_rects)
    IN  [rect_builder |-> GrowRects(current_row, y, 1, flushed.builder),
         prev_row |-> current_row,
         door_rects |-> flushed.rects]

RECURSIVE MergeFrom(_, _, _)
MergeFrom(stack, i, st) ==
    IF i > Len(stack) THEN st
    ELSE MergeFrom(stack, i + 1, MergeStep(st, stack[i], i - 1))

\* door.rs 116-170 as one function: the door_rects of one level
DoorRects(level_doors, width, height) ==
    MergeFrom(PushEmptyRow(ExtractPlates(level_doors, width, height)), 1,
              [rect_builder |-> EmptyMap, prev_row |-> << >>,
               door_rects |-> << >>]).door_rects

\* ------------------------------------------------------------------------
\* Initial state: the world after LDtk spawned the levels
\* ------------------------------------------------------------------------
DoorCount(T, l) == Cardinality({ d \in T : d.level = l })

\* worlds in which only the first level of LevelOrder holds door tiles
OneLevelWorlds(width, height) ==
    SubsetsUpTo({ DoorTile(c, LevelOrder[1]) :
                    c \in CandidateCells(width, height) }, MaxDoors)

\* Worlds with door tiles in several levels.  Level entities are
\* interchangeable, so only worlds in which no level holds more door tiles
\* than a level before it in LevelOrder are enumerated.
ManyLevelWorlds(width, height) ==
    { T \in SubsetsUpTo({ DoorTile(c, l) :
                            c \in CandidateCells(width, height),
                            l \in Levels }, MaxSharedDoors) :
        \A i \in 1..(Len(LevelOrder) - 1) :
            DoorCount(T, LevelOrder[i]) >= DoorCount(T, LevelOrder[i + 1]) }

\* no entity with an Animation component exists
NoAnimation ==
    /\ animations = << >>
    /\ timer = [duration |-> 0, elapsed |-> 0, finished |-> FALSE]
    /\ frame = 0
    /\ current = 0
    /\ finished = FALSE
    /\ atlas = 0
    /\ call = [op |-> "none"]

\* the game has not been started
NoGame ==
    /\ menu = "Main"
    /\ next_menu = "Unchanged"
    /\ physics_paused = FALSE
    /\ indices_level = 0
    /\ project = FALSE
    /\ event = [kind |-> "none"]

\* no player and no spawn point exists, no frame is running
NoPlayers ==
    /\ players = << >>
    /\ spawn_points = 0
    /\ step = "Update"
    /\ todo = {}

Init ==
    /\ \/ \E wh \in GridSizes(MaxCells) :
            /\ c_wid = [l \in Levels |-> wh[1]]
            /\ c_hei = [l \in Levels |-> wh[2]]
            /\ tiles \in OneLevelWorlds(wh[1], wh[2])
       \/ \E wh \in GridSizes(MaxSharedCells) :
            /\ c_wid = [l \in Levels |-> wh[1]]
            /\ c_hei = [l \in Levels |-> wh[2]]
            /\ tiles \in ManyLevelWorlds(wh[1], wh[2])
    /\ added = Levels
    /\ phase = "start"
    /\ visited = {}
    /\ level_to_door_locations = EmptyMap
    /\ pc = [l \in Levels |-> "idle"]
    /\ plate_stack = [l \in Levels |-> << >>]
    /\ rect_builder = [l \in Levels |-> EmptyMap]
    /\ prev_row = [l \in Levels |-> << >>]
    /\ door_rects = [l \in Levels |-> << >>]
    /\ row = [l \in Levels |-> 0]
    /\ sensors = [l \in Levels |-> << >>]
    /\ first_rects = EmptyMap
    /\ NoAnimation
    /\ NoGame
    /\ NoPlayers

\* ------------------------------------------------------------------------
\* Actions
\* ------------------------------------------------------------------------
locals == << plate_stack, rect_builder, prev_row, door_rects, row >>
world == << c_wid, c_hei, tiles, added >>

\* door.rs 83-97: build level_to_door_locations from the Added doors; the
\* system returns at once when door_query is empty
GroupDoors ==
    /\ phase = "start"
    /\ \E order \in IterationOrders(door_query) :
          level_to_door_locations' = GroupDoorsFrom(order, 1, EmptyMap)
    /\ phase' = IF door_query = {} THEN "idle" ELSE "levels"
    /\ visited' = {}
    /\ UNCHANGED << world, pc, locals, sensors, first_rects >>
    /\ UNCHANGED beyond_door

NoLevelInProgress == \A l \in Levels : pc[l] \in {"idle", "done"}

\* door.rs 98-99: level_query yields a level without an entry in the map
SkipLevelStep(l) ==
    /\ phase = "levels"
    /\ l \notin visited
    /\ l \notin DOMAIN level_to_door_locations
    /\ visited' = visited \cup {l}
    /\ UNCHANGED << world, phase, level_to_door_locations, pc, locals,
                    sensors, first_rects >>
    /\ UNCHANGED beyond_door

\* for_each runs the closure for one level after the other
SkipLevel(l) == NoLevelInProgress /\ SkipLevelStep(l)

\* door.rs 99-147: plates of every row, the extra row, fresh merge state
BuildPlateStackStep(l) ==
    /\ phase = "levels"
    /\ l \notin visited
    /\ l \in DOMAIN level_to_door_locations
    /\ plate_stack' = [plate_stack EXCEPT ![l] =
            PushEmptyRow(ExtractPlates(level_to_door_locations[l],
                                       c_wid[l], c_hei[l]))]
    /\ rect_builder' = [rect_builder EXCEPT ![l] = EmptyMap]
    /\ prev_row' = [prev_row EXCEPT ![l] = << >>]
    /\ door_rects' = [door_rects EXCEPT ![l] = << >>]
    /\ row' = [row EXCEPT ![l] = 0]
    /\ pc' = [pc EXCEPT ![l] = "merge"]
    /\ visited' = visited \cup {l}
    /\ UNCHANGED << world, phase, level_to_door_locations, sensors,
                    first_rects >>
    /\ UNCHANGED beyond_door

BuildPlateStack(l) == NoLevelInProgress /\ BuildPlateStackStep(l)

\* plate_stack, rect_builder, prev_row and door_rects are declared inside
\* the closure: every level's iteration has variables of its own
LocalShared(v, l) == v[LevelOrder[1]]
Local(v, l) == v[l]

\* door.rs 149-170: one iteration of the loop over plate_stack
MergeRow(l) ==
    /\ pc[l] = "merge"
    /\ row[l] < Len(plate_stack[l])
    /\ LET y == row[l]
           st == MergeStep([rect_builder |-> Local(rect_builder, l),
                            prev_row |-> Local(prev_row, l),
                            door_rects |-> Local(door_rects, l)],
                           plate_stack[l][y + 1], y)
       IN  /\ door_rects' = [door_rects EXCEPT ![l] = st.door_rects]
           /\ rect_builder' = [rect_builder EXCEPT ![l] = st.rect_builder]
           /\ prev_row' = [prev_row EXCEPT ![l] = st.prev_row]
           /\ row' = [row EXCEPT ![l] = y + 1]
    /\ UNCHANGED << world, phase, visited, level_to_door_locations, pc,
                    plate_stack, sensors, first_rects >>
    /\ UNCHANGED beyond_door

\* door.rs 172-204: one Door sensor child per rectangle
SpawnSensors(l) ==
    /\ pc[l] = "merge"
    /\ row[l] = Len(plate_stack[l])
    /\ sensors' = [sensors EXCEPT ![l] = @ \o door_rects[l]]
    /\ pc' = [pc EXCEPT ![l] = "done"]
    /\ UNCHANGED << world, phase, visited, level_to_door_locations, locals,
                    first_rects >>
    /\ UNCHANGED beyond_door

\* the system returns once level_query is exhausted
Finish ==
    /\ phase = "levels"
    /\ visited = Levels
    /\ NoLevelInProgress
    /\ phase' = "idle"
    /\ first_rects' = IF DOMAIN first_rects = {}
                      THEN [l \in Levels |-> Range(sensors[l])]
                      ELSE first_rects
    /\ UNCHANGED << world, visited, level_to_door_locations, pc, locals,
                    sensors >>
    /\ UNCHANGED beyond_door

\* LDtk respawns the levels of S: their children (tiles, sensors) are
\* despawned and the same door tiles are added again (Added<Door>).
Respawn(S) ==
    /\ phase = "idle"
    /\ S # {}
    /\ added' = S
    /\ sensors' = [l \in Levels |-> IF l \in S THEN << >> ELSE sensors[l]]
    /\ phase' = "start"
    /\ visited' = {}
    /\ level_to_door_locations' = EmptyMap
    /\ pc' = [l \in Levels |-> "idle"]
    /\ plate_stack' = [l \in Levels |-> << >>]
    /\ rect_builder' = [l \in Levels |-> EmptyMap]
    /\ prev_row' = [l \in Levels |-> << >>]
    /\ door_rects' = [l \in Levels |-> << >>]
    /\ row' = [l \in Levels |-> 0]
    /\ UNCHANGED << c_wid, c_hei, tiles, first_rects >>
    /\ UNCHANGED beyond_door

Next ==
    \/ GroupDoors
    \/ \E l \in Levels : SkipLevel(l)
    \/ \E l \in Levels : BuildPlateStack(l)
    \/ \E l \in Levels : MergeRow(l)
    \/ \E l \in Levels : SpawnSensors(l)
    \/ Finish
    \/ \E S \in SUBSET Levels : Respawn(S)

Spec == Init /\ [][Next]_vars

\* The decompositions of different levels run concurrently: a level may be
\* started and stepped while another one is in progress.
NextInterleaved ==
    \/ GroupDoors
    \/ \E l \in Levels : SkipLevelStep(l)
    \/ \E l \in Levels : BuildPlateStackStep(l)
    \/ \E l \in Levels : MergeRow(l)
    \/ \E l \in Levels : SpawnSensors(l)
    \/ Finish
    \/ \E S \in SUBSET Levels : Respawn(S)

SpecInterleaved == Init /\ [][NextInterleaved]_vars

TypeOK ==
    /\ phase \in {"start", "levels", "idle"}
    /\ visited \subseteq Levels
    /\ \A l \in Levels : pc[l] \in {"idle", "merge", "done"}

\* ------------------------------------------------------------------------
\* Vocabulary of the properties (not part of the model of the code)
\* ------------------------------------------------------------------------
\* the marked-cell set of a partition (level)
Marked(l) == { d.coords : d \in { t \in tiles : t.level = l } }

\* valid input: every marked cell lies inside [0,width) x [0,height)
Valid(l) == \A c \in Marked(l) : InBounds(c, c_wid[l], c_hei[l])

\* the decomposition of l for this run is over and its sensors are final:
\* the system has returned, or the level loop is past l
Decomposed(l) ==
    \/ phase = "idle"
    \/ /\ phase = "levels"
       /\ l \in visited
       /\ pc[l] \in {"idle", "done"}

CellsOf(r) == { GridCoords(x, y) : x \in r.left..r.right, y \in r.bottom..r.top }

Covered(rects) == UNION { CellsOf(rects[i]) : i \in 1..Len(rects) }

Area(r) == (r.right - r.left + 1) * (r.top - r.bottom + 1)

RECURSIVE TotalArea(_, _)
TotalArea(rects, i) ==
    IF i > Len(rects) THEN 0 ELSE Area(rects[i]) + TotalArea(rects, i + 1)

\* the maximal contiguous runs of marked columns of row y inside [0,width)
MaximalRuns(marked, y, width) ==
    { p \in [left : 0..(width - 1), right : 0..(width - 1)] :
        /\ p.left <= p.right
        /\ \A x \in p.left..p.right : GridCoords(x, y) \in marked
        /\ p.left = 0 \/ GridCoords(p.left - 1, y) \notin marked
        /\ p.right = width - 1 \/ GridCoords(p.right + 1, y) \notin marked }

PlatesOverlap(p, q) == p.left <= q.right /\ q.left <= p.right

\* ------------------------------------------------------------------------
\* C1 Coverage: for a partition whose marked cells all lie inside the grid,
\* the union of the cells of the emitted rectangles is exactly the marked
\* cell set.
\* ------------------------------------------------------------------------
C1_Coverage ==
    \A l \in Levels :
        (Decomposed(l) /\ Valid(l)) => Covered(sensors[l]) = Marked(l)

C1_Witness ==
    \E l \in Levels :
        /\ Decomposed(l) /\ Valid(l)
        /\ Len(sensors[l]) >= 2
        /\ \E i \in 1..Len(sensors[l]) :
              /\ sensors[l][i].right = c_wid[l] - 1
              /\ sensors[l][i].top = c_hei[l] - 1
              /\ sensors[l][i].top > sensors[l][i].bottom

\* ------------------------------------------------------------------------
\* C2 Non-overlap: no two distinct rectangles emitted for one partition
\* share a cell.
\* ------------------------------------------------------------------------
C2_NonOverlap ==
    \A l \in Levels :
        (Decomposed(l) /\ Valid(l)) =>
            \A i, j \in 1..Len(sensors[l]) :
                i # j => CellsOf(sensors[l][i]) \cap CellsOf(sensors[l][j]) = {}

\* the same plate in two rows separated by a gap: two rectangles, one column
C2_Witness ==
    \E l \in Levels :
        /\ Decomposed(l) /\ Valid(l)
        /\ \E i, j \in 1..Len(sensors[l]) :
              /\ i # j
              /\ sensors[l][i].left = sensors[l][j].left
              /\ sensors[l][i].right = sensors[l][j].right

\* ------------------------------------------------------------------------
\* C3 Invalid input bounds are rejected: a partition with a marked cell
\* outside [0,width) x [0,height) is never decomposed to completion and no
\* rectangle is emitted for it.
\* ------------------------------------------------------------------------
C3_InvalidInputRejected ==
    \A l \in Levels :
        ~Valid(l) => (pc[l] # "done" /\ sensors[l] = << >>)

\* ------------------------------------------------------------------------
\* C4 Partition isolation: no rectangle of a partition covers a cell that
\* is not marked in that partition, and a partition decomposed alone gets
\* the same rectangle set as it got when decomposed together with the
\* other partitions.
\* ------------------------------------------------------------------------
C4_PartitionIsolation ==
    \A l \in Levels :
        /\ Covered(sensors[l]) \subseteq Marked(l)
        /\ Covered(door_rects[l]) \subseteq Marked(l)
        /\ (DOMAIN first_rects # {} /\ added = {l} /\ Decomposed(l)) =>
              Range(sensors[l]) = first_rects[l]

\* l is decomposed alone, after a run together with a level that marks one
\* of the same local coordinates
C4_Witness ==
    \E l \in Levels :
        /\ DOMAIN first_rects # {} /\ added = {l} /\ Decomposed(l)
        /\ sensors[l] # << >>
        /\ \E k \in Levels \ {l} :
              /\ Marked(k) \cap Marked(l) # {}
              /\ Marked(k) # Marked(l)

\* ------------------------------------------------------------------------
\* C5 Exact-match merge policy: runs of rows y and y+1 end up in the same
\* rectangle iff they are the identical interval; overlapping but different
\* runs close the rectangle of row y at top = y and open one with
\* bottom = y+1.  The staggered L-shape yields exactly two rectangles.
\* ------------------------------------------------------------------------
C5_ExactMatchMerge ==
    \A l \in Levels :
        (Decomposed(l) /\ Valid(l)) =>
            /\ \A y \in 0..(c_hei[l] - 2) :
                 \A p \in MaximalRuns(Marked(l), y, c_wid[l]) :
                   \A q \in MaximalRuns(Marked(l), y + 1, c_wid[l]) :
                     /\ (\E r \in Range(sensors[l]) :
                            /\ GridCoords(p.left, y) \in CellsOf(r)
                            /\ GridCoords(q.left, y + 1) \in CellsOf(r))
                        <=> (p = q)
                     /\ (p # q /\ PlatesOverlap(p, q)) =>
                            /\ \E r \in Range(sensors[l]) :
                                  /\ r.left = p.left /\ r.right = p.right
                                  /\ r.top = y
                            /\ \E r \in Range(sensors[l]) :
                                  /\ r.left = q.left /\ r.right = q.right
                                  /\ r.bottom = y + 1
            /\ Marked(l) = {GridCoords(0, 0), GridCoords(1, 0), GridCoords(1, 1)}
                 => /\ Len(sensors[l]) = 2
                    /\ Range(sensors[l]) = {Rect(0, 1, 0, 0), Rect(1, 1, 1, 1)}

C5_Witness ==
    \E l \in Levels :
        /\ Decomposed(l) /\ Valid(l)
        /\ Marked(l) = {GridCoords(0, 0), GridCoords(1, 0), GridCoords(1, 1)}
        /\ Len(sensors[l]) = 2

\* ------------------------------------------------------------------------
\* C6 Row plate extraction: the plates of a row are exactly its maximal
\* runs of marked columns, in strictly ascending order of left, each with
\* left <= right, consecutive plates separated by an unmarked column.
\* ------------------------------------------------------------------------
C6_RowPlateExtraction ==
    \A l \in Levels :
        (pc[l] \in {"merge", "done"} /\ Valid(l)) =>
            \A y \in 0..(c_hei[l] - 1) :
                LET plates == plate_stack[l][y + 1]
                    runs == MaximalRuns(Marked(l), y, c_wid[l])
                IN  /\ Range(plates) = runs
                    /\ Len(plates) = Cardinality(runs)
                    /\ \A i \in 1..Len(plates) : plates[i].left <= plates[i].right
                    /\ \A i \in 1..(Len(plates) - 1) :
                          /\ plates[i].left < plates[i + 1].left
                          /\ plates[i].right + 1 < plates[i + 1].left

\* a row with two plates, the second touching the right edge
C6_Witness ==
    \E l \in Levels :
        /\ pc[l] \in {"merge", "done"} /\ Valid(l)
        /\ \E y \in 0..(c_hei[l] - 1) :
              /\ Len(plate_stack[l][y + 1]) = 2
              /\ plate_stack[l][y + 1][2].right = c_wid[l] - 1

\* ------------------------------------------------------------------------
\* C7 Area conservation: the areas of the emitted rectangles of a valid
\* partition add up to the number of its marked cells.
\* ------------------------------------------------------------------------
C7_AreaConservation ==
    \A l \in Levels :
        (Decomposed(l) /\ Valid(l)) =>
            TotalArea(sensors[l], 1) = Cardinality(Marked(l))

C7_Witness ==
    \E l \in Levels :
        /\ Decomposed(l) /\ Valid(l)
        /\ Len(sensors[l]) >= 2
        /\ \E i \in 1..Len(sensors[l]) : Area(sensors[l][i]) >= 2

\* ------------------------------------------------------------------------
\* C8 Idempotent re-derivation: decomposing the grid that marks exactly the
\* cells covered by the emitted rectangles (same width and height) yields
\* the same rectangle set.
\* ------------------------------------------------------------------------
C8_IdempotentRederivation ==
    \A l \in Levels :
        (Decomposed(l) /\ Valid(l)) =>
            Range(DoorRects(Covered(sensors[l]), c_wid[l], c_hei[l]))
                = Range(sensors[l])

C8_Witness ==
    \E l \in Levels :
        /\ Decomposed(l) /\ Valid(l)
        /\ Len(sensors[l]) >= 2
        /\ \E i \in 1..Len(sensors[l]) :
              /\ sensors[l][i].top > sensors[l][i].bottom
              /\ sensors[l][i].right = c_wid[l] - 1

\* ------------------------------------------------------------------------
\* C9 Determinism: a second run on the identical input (the same levels
\* with the same door tiles) yields, for every partition, the rectangle set
\* of the first run, whatever order the queries iterate in.
\* ------------------------------------------------------------------------
C9_Determinism ==
    \A l \in Levels :
        (DOMAIN first_rects # {} /\ added = Levels /\ Decomposed(l)) =>
            Range(sensors[l]) = first_rects[l]

\* second run finished; two levels had doors, one of them several
C9_Witness ==
    /\ DOMAIN first_rects # {} /\ added = Levels /\ phase = "idle"
    /\ \A l \in Levels : Decomposed(l)
    /\ Cardinality({ l \in Levels : sensors[l] # << >> }) >= 2
    /\ \E l \in Levels : Cardinality(Marked(l)) >= 2 /\ Valid(l)

\* ------------------------------------------------------------------------
\* C10 Empty partition: a partition without marked cells never enters the
\* decomposition body, gets no rectangle, and the run still completes for
\* it, also when other partitions have marked cells.
\* ------------------------------------------------------------------------
C10_EmptyPartition ==
    \A l \in Levels :
        Marked(l) = {} =>
            /\ pc[l] = "idle"
            /\ sensors[l] = << >>
            /\ door_rects[l] = << >>
            /\ (phase = "idle" /\ door_query # {}) => l \in visited

C10_Witness ==
    \E l \in Levels :
        /\ Marked(l) = {}
        /\ phase = "idle"
        /\ l \in visited
        /\ \E k \in Levels \ {l} : sensors[k] # << >>

\* ------------------------------------------------------------------------
\* C11 Solid block: when the marked cells of a partition are exactly one
\* axis-aligned block [l,r] x [b,t] inside the grid, exactly the one
\* rectangle {left l, right r, top t, bottom b} is emitted.
\* ------------------------------------------------------------------------
BlocksOf(width, height) ==
    { r \in [left : 0..(width - 1), right : 0..(width - 1),
             top : 0..(height - 1), bottom : 0..(height - 1)] :
        r.left <= r.right /\ r.bottom <= r.top }

C11_SolidBlock ==
    \A l \in Levels :
        Decomposed(l) =>
            \A b \in BlocksOf(c_wid[l], c_hei[l]) :
                Marked(l) = CellsOf(b) => sensors[l] = << b >>

\* a block of several rows and columns that touches the right and top edge
C11_Witness ==
    \E l \in Levels :
        /\ Decomposed(l)
        /\ \E b \in BlocksOf(c_wid[l], c_hei[l]) :
              /\ Marked(l) = CellsOf(b)
              /\ b.left < b.right /\ b.bottom < b.top
              /\ b.right = c_wid[l] - 1 /\ b.top = c_hei[l] - 1
              /\ sensors[l] = << b >>

\* ------------------------------------------------------------------------
\* C12 Totality and termination: for well-formed input the merge loop of a
\* partition never gets stuck, its row index never passes height + 1, and
\* it is done after exactly height real rows plus one synthetic empty row.
\* ------------------------------------------------------------------------
C12_Termination ==
    \A l \in Levels :
        (Valid(l) /\ c_wid[l] >= 0 /\ c_hei[l] >= 0) =>
            /\ pc[l] \in {"merge", "done"} =>
                  /\ Len(plate_stack[l]) = c_hei[l] + 1
                  /\ plate_stack[l][c_hei[l] + 1] = << >>
                  /\ row[l] \in 0..(c_hei[l] + 1)
            /\ pc[l] = "merge" =>
                  (ENABLED MergeRow(l)) \/ (ENABLED SpawnSensors(l))
            /\ pc[l] = "done" => row[l] = c_hei[l] + 1

C12_Witness ==
    \E l \in Levels :
        /\ Valid(l) /\ pc[l] = "done"
        /\ c_hei[l] >= 2
        /\ row[l] = c_hei[l] + 1
        /\ sensors[l] # << >>

\* ------------------------------------------------------------------------
\* C13 Partition order independence: in every order and interleaving of
\* the row steps of different partitions, the merge state of a partition
\* after its first n rows and its final rectangles are those of running
\* that partition on its own, rows in ascending y, and a second run yields
\* the rectangle sets of the first.
\* ------------------------------------------------------------------------
MergePrefix(stack, n) ==
    MergeFrom(SubSeq(stack, 1, n), 1,
              [rect_builder |-> EmptyMap, prev_row |-> << >>,
               door_rects |-> << >>])

C13_OrderIndependence ==
    \A l \in Levels :
        /\ pc[l] \in {"merge", "done"} =>
              /\ plate_stack[l] =
                    PushEmptyRow(ExtractPlates(level_to_door_locations[l],
                                               c_wid[l], c_hei[l]))
              /\ [rect_builder |-> rect_builder[l], prev_row |-> prev_row[l],
                  door_rects |-> door_rects[l]]
                    = MergePrefix(plate_stack[l], row[l])
        /\ pc[l] = "done" =>
              sensors[l] = DoorRects(level_to_door_locations[l],
                                     c_wid[l], c_hei[l])
        /\ (DOMAIN first_rects # {} /\ Decomposed(l) /\ l \in added) =>
              Range(sensors[l]) = first_rects[l]

\* two levels are in the middle of their merge loops at the same time
C13_Witness ==
    \E l \in Levels : \E k \in Levels \ {l} :
        /\ pc[l] = "merge" /\ pc[k] = "merge"
        /\ row[l] >= 1 /\ row[l] < Len(plate_stack[l])
        /\ row[k] >= 1 /\ row[k] < Len(plate_stack[k])
        /\ DOMAIN rect_builder[l] # {}
        /\ door_rects[k] # << >>

\* ------------------------------------------------------------------------
\* C14 The extra scan column x = width is treated as always unmarked: the
\* plates of row y are the same whether or not the occupancy set contains
\* the cell (width, y).
\* ------------------------------------------------------------------------
C14_ExtraColumnUnmarked ==
    \A l \in Levels :
        pc[l] \in {"merge", "done"} =>
            \A y \in 0..(c_hei[l] - 1) :
                plate_stack[l][y + 1] =
                    RowPlates(level_to_door_locations[l]
                                \ { GridCoords(c_wid[l], y) }, y, c_wid[l])

\* ------------------------------------------------------------------------
\* C15 Right-edge closure: for valid input a run of marked cells of row y
\* that includes column width-1 yields a plate with right = width-1, and no
\* marked cell of the row is left outside of every plate.
\* ------------------------------------------------------------------------
C15_RightEdgeClosure ==
    \A l \in Levels :
        (pc[l] \in {"merge", "done"} /\ Valid(l)) =>
            \A y \in 0..(c_hei[l] - 1) :
                LET plates == Range(plate_stack[l][y + 1])
                IN  /\ GridCoords(c_wid[l] - 1, y) \in Marked(l) =>
                          \E p \in plates :
                              /\ p.right = c_wid[l] - 1
                              /\ \A x \in p.left..p.right :
                                    GridCoords(x, y) \in Marked(l)
                              /\ p.left = 0 \/
                                    GridCoords(p.left - 1, y) \notin Marked(l)
                    /\ \A x \in 0..(c_wid[l] - 1) :
                          GridCoords(x, y) \in Marked(l) =>
                              \E p \in plates : p.left <= x /\ x <= p.right

\* a run of several cells that ends at the right edge, behind another plate
C15_Witness ==
    \E l \in Levels :
        /\ pc[l] \in {"merge", "done"} /\ Valid(l)
        /\ \E y \in 0..(c_hei[l] - 1) :
              /\ Len(plate_stack[l][y + 1]) = 2
              /\ plate_stack[l][y + 1][2].right = c_wid[l] - 1
              /\ plate_stack[l][y + 1][2].left < c_wid[l] - 1

\* ------------------------------------------------------------------------
\* C16 Emission moment: the step for row y removes from the map and appends
\* to the output exactly the rectangles of the plates of prev_row that are
\* not (by equality) in current_row, each with top = y-1; all other
\* in-progress rectangles stay in the map, and a plate of current_row that
\* was not in prev_row starts a rectangle with bottom = y.
\* ------------------------------------------------------------------------
MergeRowStepOf(l) == pc[l] = "merge" /\ row'[l] = row[l] + 1

C16_EmissionMoment ==
    [][ \A l \in Levels :
          MergeRowStepOf(l) =>
            LET y == row[l]
                current_row == plate_stack[l][y + 1]
                closing == Range(prev_row[l]) \ Range(current_row)
                n == Len(door_rects[l])
                emitted == { door_rects'[l][i] :
                                i \in (n + 1)..Len(door_rects'[l]) }
            IN  /\ Len(door_rects'[l]) = n + Cardinality(closing)
                /\ SubSeq(door_rects'[l], 1, n) = door_rects[l]
                /\ emitted = { rect_builder[l][p] : p \in closing }
                /\ \A r \in emitted : r.top = y - 1
                /\ (DOMAIN rect_builder'[l]) \cap closing = {}
                /\ (DOMAIN rect_builder[l]) \ closing
                        \subseteq DOMAIN rect_builder'[l]
                /\ \A p \in Range(current_row) \ Range(prev_row[l]) :
                        rect_builder'[l][p].bottom = y
      ]_vars

\* a plate reappeared after a gap: its first rectangle is in the output and
\* a new one, starting above the gap, is in the map
C16_Witness ==
    \E l \in Levels :
        /\ pc[l] = "merge"
        /\ \E i \in 1..Len(door_rects[l]) :
              LET r == door_rects[l][i]
                  p == Plate(r.left, r.right)
              IN  /\ p \in DOMAIN rect_builder[l]
                  /\ rect_builder[l][p].bottom > r.top + 1

\* ------------------------------------------------------------------------
\* C17 Step 2: after the step for row y every plate of current_row maps to
\* an in-progress rectangle with top = y; a rectangle that existed for the
\* plate keeps its bottom and its top goes from y-1 to y, any other plate
\* gets the new rectangle {plate.left, plate.right, top y, bottom y}.
\* ------------------------------------------------------------------------
C17_GrowStep ==
    [][ \A l \in Levels :
          MergeRowStepOf(l) =>
            LET y == row[l]
                current_row == plate_stack[l][y + 1]
            IN  \A p \in Range(current_row) :
                  /\ p \in DOMAIN rect_builder'[l]
                  /\ rect_builder'[l][p].top = y
                  /\ rect_builder'[l][p].left = p.left
                  /\ rect_builder'[l][p].right = p.right
                  /\ IF p \in DOMAIN rect_builder[l]
                     THEN /\ rect_builder'[l][p].bottom = rect_builder[l][p].bottom
                          /\ rect_builder'[l][p].top = rect_builder[l][p].top + 1
                     ELSE rect_builder'[l][p] = Rect(p.left, p.right, y, y)
      ]_vars

\* an in-progress rectangle that has been extended by the last step
C17_Witness ==
    \E l \in Levels :
        /\ pc[l] = "merge"
        /\ \E p \in DOMAIN rect_builder[l] :
              /\ rect_builder[l][p].top > rect_builder[l][p].bottom
              /\ rect_builder[l][p].top = row[l] - 1
              /\ p.left < p.right

\* ------------------------------------------------------------------------
\* C18 Final flush: once the synthetic empty row behind the last real row
\* has been processed, the in-progress map is empty and every rectangle
\* that was started (a plate of row y that is not a plate of row y-1),
\* those reaching row height-1 included, is in the output exactly once.
\* ------------------------------------------------------------------------
StartedRects(stack) ==
    { << p, y >> \in (UNION { Range(stack[i]) : i \in 1..Len(stack) })
                        \X (0..(Len(stack) - 1)) :
        /\ p \in Range(stack[y + 1])
        /\ y = 0 \/ p \notin Range(stack[y]) }

Flushed(l) == pc[l] \in {"merge", "done"} /\ row[l] = Len(plate_stack[l])

C18_FinalFlush ==
    \A l \in Levels :
        Flushed(l) =>
            /\ Len(plate_stack[l]) = c_hei[l] + 1
            /\ plate_stack[l][Len(plate_stack[l])] = << >>
            /\ rect_builder[l] = EmptyMap
            /\ Len(door_rects[l]) = Cardinality(StartedRects(plate_stack[l]))
            /\ \A s \in StartedRects(plate_stack[l]) :
                  Cardinality({ i \in 1..Len(door_rects[l]) :
                                  /\ door_rects[l][i].left = s[1].left
                                  /\ door_rects[l][i].right = s[1].right
                                  /\ door_rects[l][i].bottom = s[2] }) = 1

\* the empty row closed a rectangle of the last real row, after earlier
\* rows had closed another
C18_Witness ==
    \E l \in Levels :
        /\ Flushed(l)
        /\ c_hei[l] >= 2
        /\ \E i, j \in 1..Len(door_rects[l]) :
              /\ door_rects[l][i].top = c_hei[l] - 1
              /\ door_rects[l][i].bottom < c_hei[l] - 1
              /\ door_rects[l][j].top < c_hei[l] - 1

\* ------------------------------------------------------------------------
\* C19 Vertical maximality: the plate of every emitted rectangle is a plate
\* of every row in [bottom, top], is not a plate of row bottom-1 (or
\* bottom = 0) and not a plate of row top+1 (or top = height-1); the output
\* is exactly the set of maximal vertical runs of identical plates.
\* ------------------------------------------------------------------------
HasPlate(stack, p, y) == p \in Range(stack[y + 1])

MaximalVerticalRuns(stack, height) ==
    { r \in UNION { { Rect(p.left, p.right, t, b) :
                        p \in Range(stack[b + 1]), t \in b..(height - 1) } :
                    b \in 0..(height - 1) } :
        LET p == Plate(r.left, r.right)
        IN  /\ \A y \in r.bottom..r.top : HasPlate(stack, p, y)
            /\ r.bottom = 0 \/ ~HasPlate(stack, p, r.bottom - 1)
            /\ r.top = height - 1 \/ ~HasPlate(stack, p, r.top + 1) }

C19_VerticalMaximality ==
    \A l \in Levels :
        pc[l] = "done" =>
            /\ \A i \in 1..Len(sensors[l]) :
                  LET r == sensors[l][i]
                      p == Plate(r.left, r.right)
                  IN  /\ 0 <= r.bottom /\ r.bottom <= r.top
                      /\ r.top <= c_hei[l] - 1
                      /\ \A y \in r.bottom..r.top :
                            HasPlate(plate_stack[l], p, y)
                      /\ r.bottom = 0
                            \/ ~HasPlate(plate_stack[l], p, r.bottom - 1)
                      /\ r.top = c_hei[l] - 1
                            \/ ~HasPlate(plate_stack[l], p, r.top + 1)
            /\ Range(sensors[l]) = MaximalVerticalRuns(plate_stack[l], c_hei[l])
            /\ Len(sensors[l]) = Cardinality(Range(sensors[l]))

\* a rectangle of several rows that starts above row 0, over a row with
\* a differing plate that overlaps it
C19_Witness ==
    \E l \in Levels :
        /\ pc[l] = "done"
        /\ \E i \in 1..Len(sensors[l]) :
              /\ sensors[l][i].bottom > 0
              /\ sensors[l][i].top > sensors[l][i].bottom
              /\ \E q \in Range(plate_stack[l][sensors[l][i].bottom]) :
                    PlatesOverlap(q, Plate(sensors[l][i].left,
                                           sensors[l][i].right))

\* ------------------------------------------------------------------------
\* C20 Rectangle well-formedness: in every reachable state every
\* in-progress and every emitted rectangle has left <= right and
\* bottom <= top, and all its cells are marked cells of its partition
\* inside [0,width) x [0,height).
\* ------------------------------------------------------------------------
WellFormed(r, l) ==
    /\ r.left <= r.right
    /\ r.bottom <= r.top
    /\ CellsOf(r) \subseteq Marked(l)
    /\ \A c \in CellsOf(r) : InBounds(c, c_wid[l], c_hei[l])

C20_WellFormedRects ==
    \A l \in Levels :
        /\ \A p \in DOMAIN rect_builder[l] : WellFormed(rect_builder[l][p], l)
        /\ \A i \in 1..Len(door_rects[l]) : WellFormed(door_rects[l][i], l)
        /\ \A i \in 1..Len(sensors[l]) : WellFormed(sensors[l][i], l)

\* mid-merge, with an in-progress rectangle at the right edge and an
\* emitted one, in a partition that also marks a cell outside the grid
C20_Witness ==
    \E l \in Levels :
        /\ pc[l] = "merge"
        /\ ~Valid(l)
        /\ door_rects[l] # << >>
        /\ \E p \in DOMAIN rect_builder[l] :
              /\ p.right = c_wid[l] - 1
              /\ rect_builder[l][p].top > rect_builder[l][p].bottom

\* ========================================================================
\* Sprite animation (src/game/animation.rs)
\* ========================================================================
\* Durations are counted in units of 10 ms.  Intervals of the enumerated
\* animation lists range over 1..MaxInterval, animations have 1..MaxFrames
\* frames, and one frame of the game lasts 0..MaxDelta units.
MaxFrames == 3
MaxInterval == 2
MaxDelta == 3

\* enum AnimationState
AnimationState == {"Walking", "Idle", "Falling", "Jumping", "Dying"}

\* enum Repeat
Repeat == {"OneShot", "Loop"}

AnimationData(frames, interval, st, atlas_index, repeat) ==
    [frames |-> frames, interval |-> interval, state |-> st,
     atlas_index |-> atlas_index, repeat |-> repeat]

\* player.rs 80-120: the animations of the player
PlayerAnimations ==
    << AnimationData(6, 8, "Walking", 0, "Loop"),
       AnimationData(4, 15, "Idle", 6, "Loop"),
       AnimationData(3, 15, "Falling", 10, "Loop"),
       AnimationData(3, 15, "Jumping", 13, "Loop"),
       AnimationData(3, 8, "Dying", 16, "OneShot") >>

\* mine.rs 103-113: the animation of an explosion
ExplosionAnimations == << AnimationData(8, 7, "Idle", 0, "OneShot") >>

\* Other lists Animation::new may be given: one or two animations with
\* distinct states, laid out one after the other in the atlas.
ListedStates == << "Idle", "Dying" >>

SomeAnimation(st, atlas_index) ==
    { AnimationData(f, i, st, atlas_index, r) :
        f \in 1..MaxFrames, i \in 1..MaxInterval, r \in Repeat }

AnimationLists ==
    { << a >> : a \in SomeAnimation(ListedStates[1], 0) }
        \cup UNION { { << a, b >> :
                         b \in SomeAnimation(ListedStates[2], a.frames) } :
                     a \in SomeAnimation(ListedStates[1], 0) }
        \cup { PlayerAnimations, ExplosionAnimations }

\* bevy Timer, TimerMode::Repeating
TimerNew(duration) ==
    [duration |-> duration, elapsed |-> 0, finished |-> FALSE]

\* Timer::tick: a repeating timer is finished in the tick in which the
\* elapsed time reaches the duration, and keeps the remainder
TimerTick(t, delta) ==
    LET e == t.elapsed + delta
    IN  IF e >= t.duration
        THEN [t EXCEPT !.finished = TRUE,
                       !.elapsed = IF t.duration = 0 THEN 0
                                   ELSE e % t.duration]
        ELSE [t EXCEPT !.finished = FALSE, !.elapsed = e]

TimerRemaining(t) == t.duration - t.elapsed

\* the Animation component as a value
Self ==
    [timer |-> timer, frame |-> frame, current |-> current,
     finished |-> finished]

\* animation.rs 107-115; current is an index into animations (from 1 here)
new(list) ==
    [timer |-> TimerNew(list[1].interval), frame |-> 0, current |-> 1,
     finished |-> FALSE]

NextLoopFrameNoWrap(f, frames) == f + 1
\* animation.rs 124
NextLoopFrame(f, frames) == (f + 1) % frames

LastFrameEarly(f, frames) == f + 2 >= frames
\* animation.rs 125
LastFrame(f, frames) == f + 1 >= frames

\* animation.rs 118-130
update_timer(self, delta) ==
    LET ticked == [self EXCEPT !.timer = TimerTick(self.timer, delta)]
        data == animations[self.current]
    IN  IF ~ticked.timer.finished THEN ticked
        ELSE IF data.repeat = "Loop"
        THEN [ticked EXCEPT !.frame = NextLoopFrame(self.frame, data.frames)]
        ELSE IF LastFrame(self.frame, data.frames)
        THEN [ticked EXCEPT !.finished = TRUE]
        ELSE [ticked EXCEPT !.frame = self.frame + 1]

\* animation.rs 159-161
state(self) == animations[self.current].state

\* animation.rs 135-139: position() of the first animation with the state
Position(st) ==
    CHOOSE i \in 1..Len(animations) :
        /\ animations[i].state = st
        /\ \A j \in 1..(i - 1) : animations[j].state # st

FireTimerOmitted(self) == self
\* animation.rs 146
FireTimer(self) == update_timer(self, TimerRemaining(self.timer))

\* animation.rs 133-148
update_state(self, st) ==
    IF state(self) # st
    THEN LET found == Position(st)
         IN  FireTimer([timer |-> TimerNew(animations[found].interval),
                        frame |-> 0, current |-> found, finished |-> FALSE])
    ELSE self

\* animation.rs 151-153
changed(self) == self.timer.finished

\* animation.rs 155-157
is_finished(self) == self.finished

\* animation.rs 164-166
get_atlas_index(self) == animations[self.current].atlas_index + self.frame

Store(self) ==
    /\ timer' = self.timer
    /\ frame' = self.frame
    /\ current' = self.current
    /\ finished' = self.finished

\* the states update_state can be called with: position().unwrap() panics
\* for a state without an animation, and no caller passes one
Configured == { animations[i].state : i \in 1..Len(animations) }

\* a world without Door tiles, before spawn_door_sensor has run
NoDoors ==
    /\ c_wid = [l \in Levels |-> 0]
    /\ c_hei = [l \in Levels |-> 0]
    /\ tiles = {}
    /\ added = Levels
    /\ phase = "start"
    /\ visited = {}
    /\ level_to_door_locations = EmptyMap
    /\ pc = [l \in Levels |-> "idle"]
    /\ plate_stack = [l \in Levels |-> << >>]
    /\ rect_builder = [l \in Levels |-> EmptyMap]
    /\ prev_row = [l \in Levels |-> << >>]
    /\ door_rects = [l \in Levels |-> << >>]
    /\ row = [l \in Levels |-> 0]
    /\ sensors = [l \in Levels |-> << >>]
    /\ first_rects = EmptyMap

InitAnimation ==
    /\ animations \in AnimationLists
    /\ timer = new(animations).timer
    /\ frame = new(animations).frame
    /\ current = new(animations).current
    /\ finished = new(animations).finished
    /\ atlas = animations[1].atlas_index
    /\ call = [op |-> "new"]
    /\ NoDoors
    /\ NoGame
    /\ NoPlayers

\* animation.rs 41-45: update_animation_timer
UpdateAnimationTimer(delta) ==
    /\ Store(update_timer(Self, delta))
    /\ call' = [op |-> "update_timer", delta |-> delta]
    /\ UNCHANGED << animations, atlas >>
    /\ UNCHANGED beyond_anim

\* animation.rs 169-214: handle_animating calls update_state
HandleAnimating(st) ==
    /\ st \in Configured
    /\ Store(update_state(Self, st))
    /\ call' = [op |-> "update_state", state |-> st,
                switched |-> (state(Self) # st)]
    /\ UNCHANGED << animations, atlas >>
    /\ UNCHANGED beyond_anim

\* animation.rs 48-57: update_animation_atlas
UpdateAnimationAtlas ==
    /\ atlas' = IF changed(Self) THEN get_atlas_index(Self) ELSE atlas
    /\ call' = [op |-> "update_atlas"]
    /\ UNCHANGED << animations, timer, frame, current, finished >>
    /\ UNCHANGED beyond_anim

NextAnimation ==
    \/ \E delta \in 0..MaxDelta : UpdateAnimationTimer(delta)
    \/ \E st \in AnimationState : HandleAnimating(st)
    \/ UpdateAnimationAtlas

SpecAnimation == InitAnimation /\ [][NextAnimation]_anim_vars

\* ------------------------------------------------------------------------
\* C21 update_state(s): with s the current state, frame, finished, current
\* and the timer are unchanged; with another s, current becomes the entry
\* for s, finished is cleared (unless the new animation is a one-shot of a
\* single frame), the timer is restarted with the new interval, and
\* changed() is true right afterwards, so that update_animation_atlas,
\* which runs next, writes the atlas index of the new animation.
\* ------------------------------------------------------------------------
C21_UpdateState ==
    [][ /\ call'.op = "update_state" =>
            IF call'.state = state(Self)
            THEN UNCHANGED << frame, finished, current, timer >>
            ELSE LET data == animations[current']
                 IN  /\ current' = Position(call'.state)
                     /\ data.state = call'.state
                     /\ finished' = (data.repeat = "OneShot" /\ data.frames = 1)
                     /\ timer'.duration = data.interval
                     /\ timer'.elapsed = 0
                     /\ timer'.finished
        /\ (call.op = "update_state" /\ call.switched
                /\ call'.op = "update_atlas") =>
              /\ atlas' = animations[current].atlas_index + frame
              /\ atlas' \in animations[current].atlas_index
                              ..(animations[current].atlas_index
                                    + animations[current].frames - 1)
      ]_anim_vars

\* update_state has just switched to another, unfinished animation
C21_Witness ==
    /\ call.op = "update_state"
    /\ call.switched
    /\ current > 1
    /\ state(Self) = call.state
    /\ changed(Self)
    /\ ~finished

\* ------------------------------------------------------------------------
\* C22 Atlas index range: frame < frames of the current animation, and
\* get_atlas_index() lies in [atlas_index, atlas_index + frames - 1] of the
\* current animation and in the range of no other animation.
\* ------------------------------------------------------------------------
C22_AtlasIndexRange ==
    LET data == animations[current]
        InFramesOf(d, i) == d.atlas_index <= i /\ i <= d.atlas_index + d.frames - 1
    IN  /\ current \in 1..Len(animations)
        /\ 0 <= frame /\ frame < data.frames
        /\ InFramesOf(data, get_atlas_index(Self))
        /\ \A j \in 1..Len(animations) :
              j # current => ~InFramesOf(animations[j], get_atlas_index(Self))

\* the last frame of an animation that is followed by another in the atlas
C22_Witness ==
    /\ call.op = "update_timer"
    /\ frame >= 1
    /\ frame = animations[current].frames - 1
    /\ \E j \in 1..Len(animations) :
          animations[j].atlas_index = get_atlas_index(Self) + 1

\* ------------------------------------------------------------------------
\* C23 One-shot versus loop: finished becomes true only for a OneShot
\* animation, in a call in which the timer fires while frame is the last
\* frame; frame and finished then stay until the state changes.  A Loop
\* animation never has finished set, and its frame wraps from frames-1 to 0
\* when the timer fires.
\* ------------------------------------------------------------------------
C23_OneShotVersusLoop ==
    [][ LET data == animations[current]
            data_after == animations[current']
        IN  /\ (~finished /\ finished') =>
                  /\ data_after.repeat = "OneShot"
                  /\ timer'.finished
                  /\ frame' = data_after.frames - 1
                  /\ current' = current => frame = frame'
            /\ (finished /\ current' = current) =>
                  /\ finished'
                  /\ frame' = frame
                  /\ frame = data.frames - 1
            /\ data_after.repeat = "Loop" => ~finished'
            /\ (call'.op = "update_timer" /\ data.repeat = "Loop") =>
                  frame' = IF ~timer'.finished THEN frame
                           ELSE IF frame = data.frames - 1 THEN 0
                           ELSE frame + 1
      ]_anim_vars

\* a one-shot animation of several frames, not the first of the list, has
\* run to its end
C23_Witness ==
    /\ finished
    /\ is_finished(Self)
    /\ call.op = "update_timer"
    /\ current > 1
    /\ animations[current].repeat = "OneShot"
    /\ animations[current].frames >= 2
    /\ frame = animations[current].frames - 1

\* ========================================================================
\* Menus, physics clock and level progression
\* (src/menus/pause.rs, src/menus/death.rs, src/menus/won.rs, door.rs 28-50)
\* ========================================================================
\* LevelSelection's index is a usize; the model stops counting door entries
\* at MaxLevel.
MaxLevel == 6

\* enum Menu
Menu == {"None", "Main", "Credits", "Settings", "Pause", "Death", "Won"}

\* menus requested by code outside the modelled files (title screen,
\* settings and credits menus, the key that opens the pause menu)
OtherMenus == {"None", "Main", "Credits", "Settings", "Pause"}

PastLastLevelEarly(l) == l > 3
\* door.rs 46
PastLastLevel(l) == l > 4

\* door.rs 28-50: the observer of one Door sensor receives CollisionStart
on_player_entered_door(other_is_player) ==
    /\ project
    /\ indices_level < MaxLevel
    /\ IF other_is_player
       THEN /\ indices_level' = indices_level + 1
            /\ next_menu' = IF PastLastLevel(indices_level + 1)
                            THEN "Won" ELSE next_menu
       ELSE UNCHANGED << indices_level, next_menu >>
    /\ event' = [kind |-> "door", player |-> other_is_player]
    /\ UNCHANGED << menu, physics_paused, project >>
    /\ UNCHANGED beyond_menu

\* pause.rs 39-41: the Settings button of the pause menu
open_settings_menu ==
    /\ menu = "Pause"
    /\ next_menu' = "Settings"
    /\ event' = [kind |-> "open_settings_menu"]
    /\ UNCHANGED << menu, physics_paused, indices_level, project >>
    /\ UNCHANGED beyond_menu

\* pause.rs 43-45: the Continue button of the pause menu
close_menu ==
    /\ menu = "Pause"
    /\ next_menu' = "None"
    /\ event' = [kind |-> "close_menu"]
    /\ UNCHANGED << menu, physics_paused, indices_level, project >>
    /\ UNCHANGED beyond_menu

\* pause.rs 13, 51-53: Escape while the pause menu is open
pause_go_back ==
    /\ menu = "Pause"
    /\ next_menu' = "None"
    /\ event' = [kind |-> "pause_go_back"]
    /\ UNCHANGED << menu, physics_paused, indices_level, project >>
    /\ UNCHANGED beyond_menu

\* spike.rs 94, mine.rs 71: the player touched a spike or a mine
RequestDeathMenu ==
    /\ project
    /\ next_menu' = "Death"
    /\ event' = [kind |-> "death"]
    /\ UNCHANGED << menu, physics_paused, indices_level, project >>
    /\ UNCHANGED beyond_menu

\* death.rs 62, 77: Restart button, or R while the death menu is open
LeaveDeathMenu ==
    /\ menu = "Death"
    /\ next_menu' = "None"
    /\ event' = [kind |-> "restart"]
    /\ UNCHANGED << menu, physics_paused, indices_level, project >>
    /\ UNCHANGED beyond_menu

\* a menu requested by code outside the modelled files
RequestOtherMenu(m) ==
    /\ next_menu' = m
    /\ event' = [kind |-> "other", to |-> m]
    /\ UNCHANGED << menu, physics_paused, indices_level, project >>
    /\ UNCHANGED beyond_menu

\* the gameplay screen spawns the LDtk project
SpawnProject ==
    /\ ~project
    /\ project' = TRUE
    /\ event' = [kind |-> "project"]
    /\ UNCHANGED << menu, next_menu, physics_paused, indices_level >>
    /\ UNCHANGED beyond_menu

\* pause.rs 31-33
pause_physics(paused) == TRUE

resume_physics_omitted(paused) == paused
\* pause.rs 35-37
resume_physics(paused) == FALSE

\* pause.rs 10: the systems of OnExit(Menu::Pause)
OnExit(m, paused) == IF m = "Pause" THEN resume_physics(paused) ELSE paused

\* pause.rs 9: the systems of OnEnter(Menu::Pause)
OnEnter(m, paused) == IF m = "Pause" THEN pause_physics(paused) ELSE paused

\* The StateTransition schedule applies the pending NextState: OnExit of
\* the old menu, then OnEnter of the new one.  Whether the schedules run
\* when the pending menu is the current one is left open.
StateTransition ==
    /\ next_menu # "Unchanged"
    /\ \E schedules_run \in IF next_menu = menu THEN BOOLEAN ELSE {TRUE} :
          /\ physics_paused' =
                IF schedules_run
                THEN OnEnter(next_menu, OnExit(menu, physics_paused))
                ELSE physics_paused
          \* won.rs 12-13: spawn_won_menu despawns the LDtk project
          /\ project' = IF schedules_run /\ next_menu = "Won"
                        THEN FALSE ELSE project
    /\ menu' = next_menu
    /\ next_menu' = "Unchanged"
    /\ event' = [kind |-> "transition", from |-> menu, to |-> next_menu]
    /\ UNCHANGED indices_level
    /\ UNCHANGED beyond_menu

InitMenu ==
    /\ NoGame
    /\ NoDoors
    /\ NoAnimation
    /\ NoPlayers

NextMenu ==
    \/ \E other_is_player \in BOOLEAN : on_player_entered_door(other_is_player)
    \/ open_settings_menu
    \/ close_menu
    \/ pause_go_back
    \/ RequestDeathMenu
    \/ LeaveDeathMenu
    \/ \E m \in OtherMenus : RequestOtherMenu(m)
    \/ SpawnProject
    \/ StateTransition

SpecMenu == InitMenu /\ [][NextMenu]_menu_vars

\* ------------------------------------------------------------------------
\* C24 Level progression: a CollisionStart on a door sensor whose other
\* collider is the player raises the level index by exactly 1, one with
\* another collider leaves it unchanged; Menu::Won is requested exactly
\* when the index after the increment is greater than 4; the index never
\* decreases and Won is never requested or shown while the index is <= 4.
\* ------------------------------------------------------------------------
C24_LevelProgression ==
    [][ /\ event'.kind = "door" =>
              IF event'.player
              THEN /\ indices_level' = indices_level + 1
                   /\ indices_level' > 4 => next_menu' = "Won"
                   /\ indices_level' <= 4 => next_menu' = next_menu
              ELSE /\ indices_level' = indices_level
                   /\ next_menu' = next_menu
        /\ event'.kind # "door" => indices_level' = indices_level
        /\ indices_level' >= indices_level
        /\ (next_menu' = "Won" \/ menu' = "Won") => indices_level' > 4
      ]_menu_vars

\* the fifth door entry has just requested the Won menu
C24_Witness ==
    /\ event.kind = "door" /\ event.player
    /\ indices_level = 5
    /\ next_menu = "Won"
    /\ menu = "None"

\* ------------------------------------------------------------------------
\* C27 Pause and physics: the physics clock is paused on entering
\* Menu::Pause and unpaused on every exit from it (Continue, Escape,
\* opening Settings), so after every menu transition the physics clock is
\* paused if and only if the menu is Pause.
\* ------------------------------------------------------------------------
C27_PauseAndPhysics == physics_paused <=> (menu = "Pause")

\* the pause menu has been left for the settings menu
C27_Witness ==
    /\ event.kind = "transition"
    /\ event.from = "Pause" /\ event.to = "Settings"
    /\ menu = "Settings"
    /\ ~physics_paused

\* ========================================================================
\* Player entities: spawning, death, Dying animation and despawn
\* (src/game/player.rs, spike.rs, mine.rs, animation.rs 169-214,
\*  src/menus/death.rs)
\* ========================================================================
\* at most MaxSpawnPoints entities with PlayerSpawn exist at a time
MaxSpawnPoints == 2

\* the entity ids a Player can get
PlayerSlots == << "p1", "p2", "p3" >>
Slots == { PlayerSlots[i] : i \in 1..Len(PlayerSlots) }

\* the controller states handle_animating derives for a living player
\* ("none": it returns without a call of update_state)
ControllerStates == {"Walking", "Jumping", "none"}

\* one frame lasts no time or one interval of the Dying animation
FrameDeltas == {0, PlayerAnimations[5].interval}

\* the systems of Update whose order the schedule leaves open
UpdateSystems == {"handle_animating", "despawn_player", "go_back"}

Put(ps, p, v) == [q \in (DOMAIN ps) \cup {p} |-> IF q = p THEN v ELSE ps[q]]

Drop(ps, S) == [q \in (DOMAIN ps) \ S |-> ps[q]]

\* player.rs 76-147: the bundle of a new player
PlayerBundle ==
    [dead |-> FALSE, rigid_body |-> TRUE, animation |-> new(PlayerAnimations)]

FreeSlot(ps) ==
    PlayerSlots[CHOOSE i \in 1..Len(PlayerSlots) :
                    /\ PlayerSlots[i] \notin DOMAIN ps
                    /\ \A j \in 1..(i - 1) : PlayerSlots[j] \in DOMAIN ps]

NoLivePlayerUnchecked(ps) == TRUE
\* player.rs 66-68: Query<(), (With<Player>, Without<Dead>)> is empty
NoLivePlayer(ps) == \A p \in DOMAIN ps : ps[p].dead

\* player.rs 61-73: the observer of SpawnPlayer
on_spawn_player(ps) ==
    IF NoLivePlayer(ps) THEN Put(ps, FreeSlot(ps), PlayerBundle) ELSE ps

\* the model has an entity id left for the player this trigger may spawn
CanTrigger(ps) == NoLivePlayer(ps) => DOMAIN ps # Slots

FrameOver == step = "Update" /\ todo = {}

\* player.rs 53-56: a level with a PlayerSpawn entity is spawned; the
\* on_add hook triggers SpawnPlayer
on_player_spawn_add ==
    /\ FrameOver
    /\ spawn_points < MaxSpawnPoints
    /\ CanTrigger(players)
    /\ spawn_points' = spawn_points + 1
    /\ players' = on_spawn_player(players)
    /\ UNCHANGED << step, todo, menu_vars >>
    /\ UNCHANGED << vars, anim_vars >>

\* a level is despawned with its children: spawn points and their players
DespawnLevel ==
    /\ FrameOver
    /\ spawn_points > 0
    /\ spawn_points' = 0
    /\ players' = << >>
    /\ UNCHANGED << step, todo, menu_vars >>
    /\ UNCHANGED << vars, anim_vars >>

\* death.rs 55-65: the Restart button; Single<Entity, With<PlayerSpawn>>
\* needs exactly one spawn point
restart ==
    /\ FrameOver
    /\ menu = "Death"
    /\ spawn_points = 1
    /\ CanTrigger(players)
    /\ players' = on_spawn_player(players)
    /\ next_menu' = "None"
    /\ UNCHANGED << spawn_points, step, todo >>
    /\ UNCHANGED << menu, physics_paused, indices_level, project, event >>
    /\ UNCHANGED << vars, anim_vars >>

\* StateTransition schedule of the frame
PlayerStateTransition ==
    /\ FrameOver
    /\ menu' = IF next_menu = "Unchanged" THEN menu ELSE next_menu
    /\ next_menu' = "Unchanged"
    /\ step' = "FixedUpdate"
    /\ UNCHANGED << players, spawn_points, todo >>
    /\ UNCHANGED << physics_paused, indices_level, project, event >>
    /\ UNCHANGED << vars, anim_vars >>

\* spike.rs 92-98, mine.rs 69-75: Dead is inserted, RigidBody removed
Kill(ps, p) == [ps EXCEPT ![p].dead = TRUE, ![p].rigid_body = FALSE]

\* spike.rs 81-102: CollisionStart of a spike with the body of player p
on_player_touched_spike(p) ==
    /\ step = "FixedUpdate"
    /\ p \in DOMAIN players
    /\ players[p].rigid_body
    /\ next_menu' = "Death"
    /\ players' = Kill(players, p)
    /\ UNCHANGED << spawn_points, step, todo >>
    /\ UNCHANGED << menu, physics_paused, indices_level, project, event >>
    /\ UNCHANGED << vars, anim_vars >>

\* mine.rs 56-93: CollisionStart of a mine with the body of player p
on_player_touched_mine(p) ==
    /\ step = "FixedUpdate"
    /\ p \in DOMAIN players
    /\ players[p].rigid_body
    /\ next_menu' = "Death"
    /\ players' = Kill(players, p)
    /\ UNCHANGED << spawn_points, step, todo >>
    /\ UNCHANGED << menu, physics_paused, indices_level, project, event >>
    /\ UNCHANGED << vars, anim_vars >>

\* animation.rs 41-45: update_animation_timer, first system of Update
PlayersUpdateTimer(delta) ==
    /\ step = "FixedUpdate"
    /\ players' = [p \in DOMAIN players |->
                     [players[p] EXCEPT
                        !.animation = update_timer(players[p].animation, delta)]]
    /\ step' = "Update"
    /\ todo' = UpdateSystems
    /\ UNCHANGED << spawn_points, menu_vars >>
    /\ UNCHANGED << vars, anim_vars >>

\* animation.rs 169-214: single_mut() fails unless exactly one entity has
\* a controller and an Animation
handle_animating(controller) ==
    /\ step = "Update"
    /\ "handle_animating" \in todo
    /\ todo' = todo \ {"handle_animating"}
    /\ players' =
         IF Cardinality(DOMAIN players) # 1 THEN players
         ELSE LET p == CHOOSE q \in DOMAIN players : TRUE
              IN  IF players[p].dead
                  THEN [players EXCEPT ![p].animation = update_state(@, "Dying")]
                  ELSE IF controller = "none" THEN players
                  ELSE [players EXCEPT ![p].animation = update_state(@, controller)]
    /\ UNCHANGED << spawn_points, step, menu_vars >>
    /\ UNCHANGED << vars, anim_vars >>

\* player.rs 219-225
despawn_player ==
    /\ step = "Update"
    /\ "despawn_player" \in todo
    /\ todo' = todo \ {"despawn_player"}
    /\ players' = Drop(players, { p \in DOMAIN players :
                                    /\ players[p].dead
                                    /\ is_finished(players[p].animation) })
    /\ UNCHANGED << spawn_points, step, menu_vars >>
    /\ UNCHANGED << vars, anim_vars >>

\* death.rs 20, 71-78: runs if the menu is Death and R was just pressed
go_back(pressed) ==
    /\ step = "Update"
    /\ "go_back" \in todo
    /\ todo' = todo \ {"go_back"}
    /\ IF pressed /\ menu = "Death" /\ spawn_points = 1
       THEN /\ CanTrigger(players)
            /\ players' = on_spawn_player(players)
            /\ next_menu' = "None"
       ELSE UNCHANGED << players, next_menu >>
    /\ UNCHANGED << spawn_points, step >>
    /\ UNCHANGED << menu, physics_paused, indices_level, project, event >>
    /\ UNCHANGED << vars, anim_vars >>

InitPlayer ==
    /\ NoPlayers
    /\ menu = "None"
    /\ next_menu = "Unchanged"
    /\ physics_paused = FALSE
    /\ indices_level = 0
    /\ project = TRUE
    /\ event = [kind |-> "none"]
    /\ NoDoors
    /\ animations = PlayerAnimations
    /\ timer = new(PlayerAnimations).timer
    /\ frame = new(PlayerAnimations).frame
    /\ current = new(PlayerAnimations).current
    /\ finished = new(PlayerAnimations).finished
    /\ atlas = 0
    /\ call = [op |-> "new"]

NextPlayer ==
    \/ on_player_spawn_add
    \/ DespawnLevel
    \/ restart
    \/ PlayerStateTransition
    \/ \E p \in Slots : on_player_touched_spike(p)
    \/ \E p \in Slots : on_player_touched_mine(p)
    \/ \E delta \in FrameDeltas : PlayersUpdateTimer(delta)
    \/ \E controller \in ControllerStates : handle_animating(controller)
    \/ despawn_player
    \/ \E pressed \in BOOLEAN : go_back(pressed)

game_vars == << menu_vars, player_vars >>

SpecPlayer == InitPlayer /\ [][NextPlayer]_game_vars

LivePlayers == { p \in DOMAIN players : ~players[p].dead }

DeadPlayers == { p \in DOMAIN players : players[p].dead }

\* C25: after any sequence of spawn-point additions, deaths, Restart clicks
\* and R key presses at most one player entity is not Dead.
C25_SingleLivePlayer == Cardinality(LivePlayers) <= 1

\* SpawnPlayer was triggered for a second spawn point while a player lived,
\* and a respawn happened next to a Dead player
C25_Witness ==
    /\ spawn_points = 2
    /\ Cardinality(LivePlayers) = 1
    /\ DeadPlayers # {}

\* The schedule runs every system of a frame, frame after frame, and the
\* animation timer keeps ticking: frames with a positive delta keep coming.
SpecPlayerFair ==
    /\ SpecPlayer
    /\ WF_game_vars(PlayerStateTransition)
    /\ WF_game_vars(\E delta \in FrameDeltas : PlayersUpdateTimer(delta))
    /\ SF_game_vars(PlayersUpdateTimer(PlayerAnimations[5].interval))
    /\ WF_game_vars(\E controller \in ControllerStates : handle_animating(controller))
    /\ WF_game_vars(despawn_player)
    /\ WF_game_vars(\E pressed \in BOOLEAN : go_back(pressed))

\* C26: a player entity that got Dead is eventually despawned, also when a
\* respawn creates a new player before its Dying animation has finished.
\* from the touch on the menu Death is requested, and the entity has Dead and
\* no RigidBody.
Dies(p) ==
    /\ p \in LivePlayers
    /\ p \in DOMAIN players'
    /\ players'[p].dead

C26_DeathLeadsToDespawn ==
    /\ [][\A p \in Slots :
            Dies(p) => next_menu' = "Death" /\ ~players'[p].rigid_body]_game_vars
    /\ \A p \in Slots :
            (p \in DeadPlayers) ~> (p \notin DOMAIN players)

\* ------------------------------------------------------------------------
\* the in-progress map after the transition for a row (door.rs 141-170)
\* ------------------------------------------------------------------------
RowDone(l) ==
    /\ pc[l] \in {"merge", "done"}
    /\ row[l] >= 1
    /\ row[l] <= Len(plate_stack[l])

\* C28: after the transition for each row y (the synthetic last row
\* included) the keys of the in-progress map are exactly the plates of row
\* y, prev_row is row y's plate list, and every mapped rectangle has the
\* left and right of its key.
C28_BuilderKeys ==
    \A l \in Levels :
        RowDone(l) =>
            /\ DOMAIN rect_builder[l] = Range(plate_stack[l][row[l]])
            /\ prev_row[l] = plate_stack[l][row[l]]
            /\ \A k \in DOMAIN rect_builder[l] :
                   /\ rect_builder[l][k].left = k.left
                   /\ rect_builder[l][k].right = k.right

\* after a row transition that finished one rectangle and extended another
C28_Witness ==
    \E l \in Levels :
        /\ RowDone(l)
        /\ pc[l] = "merge"
        /\ door_rects[l] # << >>
        /\ \E k \in DOMAIN rect_builder[l] :
               rect_builder[l][k].top > rect_builder[l][k].bottom
====
